---- MODULE Spec2Model ----
(***************************************************************************)
(* Model of core::net::http::impl::curl::Client (client.cpp): the base64   *)
(* codec helpers, the four request builders head/get/post/put and the      *)
(* read callback that put installs on the transfer handle.                 *)
(*                                                                         *)
(* Bytes are integers 0..255, strings of bytes are sequences of them, and  *)
(* characters of encoded text are their ASCII codes.                       *)
(***************************************************************************)
EXTENDS Integers, Sequences, FiniteSets, TLC

VARIABLES
    input,      \* codec: the string handed to base64_encode
    encoded,    \* codec: the string base64_encode returned
    decoded,    \* codec: the string base64_decode returned
    pc,         \* codec: "start", "encoded" or "done"
    multi,      \* the handles registered with the multi handle, in order
    result,     \* the outcome of the most recent head/get/post/put call
    reader,     \* the closure the most recent put installed: captured size
    stream,     \* bytes the put payload stream can hand out without blocking
    unread,     \* bytes of the put payload that have not reached the stream yet
    pulled,     \* total bytes the read callback took from the stream
    last_read   \* the most recent invocation of the read callback

vars == <<input, encoded, decoded, pc, multi, result, reader, stream, unread,
          pulled, last_read>>

codec_vars == <<input, encoded, decoded, pc>>
client_vars == <<multi, result, reader, stream, unread, pulled, last_read>>

----------------------------------------------------------------------------
(* Bounds of the model *)

MaxLen == 4         \* longest string handed to base64_encode
MaxHandles == 1     \* most handles registered with the multi handle
MaxStream == 3      \* most bytes a put payload stream holds
MaxCap == 2         \* largest in_size * nmemb the engine offers the callback

Min(a, b) == IF a < b THEN a ELSE b

RECURSIVE Pow2(_)
Pow2(n) == IF n = 0 THEN 1 ELSE 2 * Pow2(n - 1)

\* Sample bytes: NUL, 'A', 'a', 0x80, 0xFB (first sextet 62), 0xFF (sextet 63)
Bytes == {0, 65, 97, 128, 251, 255}

RECURSIVE SeqsUpTo(_, _)
SeqsUpTo(S, n) ==
    IF n = 0 THEN {<<>>}
    ELSE LET shorter == SeqsUpTo(S, n - 1)
         IN shorter \cup {Append(s, b) : s \in {t \in shorter : Len(t) = n - 1}, b \in S}

----------------------------------------------------------------------------
(* base64 codec *)

\* '=' as written by the padding table
PadChar == 61

\* Variant: the table with its last two entries exchanged
BASE64_PADDING_swapped == << <<>>, <<PadChar>>, <<PadChar, PadChar>> >>
\* BASE64_PADDING[] = { "", "==", "=" }
BASE64_PADDING == << <<>>, <<PadChar, PadChar>>, <<PadChar>> >>

\* bai::base64_from_binary: 6-bit value -> character of the base64 alphabet
base64_from_binary(v) ==
    IF v < 26 THEN 65 + v
    ELSE IF v < 52 THEN 97 + (v - 26)
    ELSE IF v < 62 THEN 48 + (v - 52)
    ELSE IF v = 62 THEN 43
    ELSE 47

\* bai::binary_from_base64: character -> 6-bit value (-1: not in the alphabet)
binary_from_base64(c) ==
    IF c >= 65 /\ c <= 90 THEN c - 65
    ELSE IF c >= 97 /\ c <= 122 THEN 26 + (c - 97)
    ELSE IF c >= 48 /\ c <= 57 THEN 52 + (c - 48)
    ELSE IF c = 43 THEN 62
    ELSE IF c = 47 THEN 63
    ELSE -1

\* bai::transform_width<Base, BitsOut, BitsIn>::fill(): gathers BitsOut bits
\* into one output value. it = [pos, rem, buf, eos] is the iterator: pos the
\* base iterator (elements consumed), rem/buf the unconsumed bits of the
\* element last read, eos set once the end was seen.
RECURSIVE fill(_, _, _, _, _)
fill(s, it, BitsIn, missing_bits, buffer_out) ==
    IF missing_bits = 0 THEN [it |-> it, out |-> buffer_out]
    ELSE
        LET refilled ==
                IF it.rem = 0
                THEN IF it.eos
                     THEN [it EXCEPT !.buf = 0, !.rem = missing_bits]
                     ELSE [it EXCEPT !.buf = s[it.pos + 1], !.rem = BitsIn,
                                     !.pos = it.pos + 1]
                ELSE it
            i == Min(missing_bits, refilled.rem)
            j == (refilled.buf \div Pow2(refilled.rem - i)) % Pow2(i)
        IN fill(s, [refilled EXCEPT !.rem = refilled.rem - i], BitsIn,
                missing_bits - i, buffer_out * Pow2(i) + j)

\* transform_width::equal_impl against the end iterator at position end.
\* Widening (BitsIn < BitsOut) discards left over bits; narrowing zero fills
\* and remembers that the end was seen.
at_end(it, end, BitsIn, BitsOut) ==
    IF BitsIn < BitsOut THEN it.pos = end
    ELSE it.pos = end /\ it.rem = 0

see_end(it, end, BitsIn, BitsOut) ==
    IF BitsIn > BitsOut /\ it.pos = end THEN [it EXCEPT !.eos = TRUE] ELSE it

\* std::copy(first, last, out) over a transform_width iterator
RECURSIVE copy(_, _, _, _, _, _)
copy(s, it, end, BitsIn, BitsOut, os) ==
    IF at_end(it, end, BitsIn, BitsOut) THEN os
    ELSE LET f == fill(s, see_end(it, end, BitsIn, BitsOut), BitsIn, BitsOut, 0)
         IN copy(s, f.it, end, BitsIn, BitsOut, Append(os, f.out))

begin_it == [pos |-> 0, rem |-> 0, buf |-> 0, eos |-> FALSE]

\* Client::base64_encode
base64_encode(s) ==
    LET sextets == copy(s, begin_it, Len(s), 8, 6, <<>>)
        os == [k \in 1..Len(sextets) |-> base64_from_binary(sextets[k])]
    IN os \o BASE64_PADDING[(Len(s) % 3) + 1]

\* Variant: the second decrement without its test for '='
strip_padding_both(s) ==
    IF Len(s) > 0 /\ s[Len(s)] = PadChar
    THEN IF Len(s) - 1 > 0 THEN Len(s) - 2 ELSE Len(s) - 1
    ELSE Len(s)

\* Client::base64_decode, "Remove the padding characters": the effective size
strip_padding(s) ==
    IF Len(s) > 0 /\ s[Len(s)] = PadChar
    THEN IF Len(s) - 1 > 0 /\ s[Len(s) - 1] = PadChar THEN Len(s) - 2 ELSE Len(s) - 1
    ELSE Len(s)

\* Client::base64_decode
base64_decode(s) ==
    LET size == strip_padding(s)
        values == [k \in 1..size |-> binary_from_base64(s[k])]
    IN IF size = 0 THEN <<>>
       ELSE copy(values, begin_it, size, 6, 8, <<>>)

----------------------------------------------------------------------------
(* Codec specification: one string is encoded, then the result decoded *)

\* The client as constructed: nothing registered, no call made yet, and a
\* payload stream of MaxStream bytes none of which is buffered yet
NoRead == [called |-> FALSE, capacity |-> 0, written |-> 0, returned |-> 0,
           remaining |-> 0]

ClientInit ==
    /\ multi = <<>>
    /\ result = [called |-> FALSE, thrown |-> "none", uri |-> "",
                 handler_present |-> FALSE, active_before |-> <<>>,
                 request |-> <<>>, built_from |-> <<>>,
                 resolver_calls |-> <<>>]
    /\ reader = [installed |-> FALSE, size |-> 0]
    /\ stream = 0
    /\ unread = MaxStream
    /\ pulled = 0
    /\ last_read = NoRead

InitCodec ==
    /\ input \in SeqsUpTo(Bytes, MaxLen)
    /\ encoded = <<>>
    /\ decoded = <<>>
    /\ pc = "start"
    /\ ClientInit

Encode ==
    /\ pc = "start"
    /\ encoded' = base64_encode(input)
    /\ pc' = "encoded"
    /\ UNCHANGED <<input, decoded>>
    /\ UNCHANGED client_vars

Decode ==
    /\ pc = "encoded"
    /\ decoded' = base64_decode(encoded)
    /\ pc' = "done"
    /\ UNCHANGED <<input, encoded>>
    /\ UNCHANGED client_vars

NextCodec == Encode \/ Decode

SpecCodec == InitCodec /\ [][NextCodec]_vars

----------------------------------------------------------------------------
(* Claims about the codec *)

RECURSIVE TrailingPads(_)
TrailingPads(s) ==
    IF Len(s) > 0 /\ s[Len(s)] = PadChar
    THEN 1 + TrailingPads(SubSeq(s, 1, Len(s) - 1))
    ELSE 0

CeilDiv3(n) == (n + 2) \div 3

\* C6: decoding the encoding of any byte string gives the string back
\* (the empty string and every length residue mod 3 included).
C6_RoundTrip == pc = "done" => decoded = input

C6_Witness ==
    /\ pc = "done"
    /\ Len(input) = 4
    /\ input[1] = 251
    /\ input[4] = 0
    /\ decoded = input

\* C7: the encoding of n bytes ends in exactly 0, 2 or 1 '=' when n mod 3 is
\* 0, 1 or 2, is 4 * ceil(n / 3) characters long, and is empty for n = 0.
C7_Padding ==
    pc # "start" =>
        /\ TrailingPads(encoded) = (CASE Len(input) % 3 = 0 -> 0
                                      [] Len(input) % 3 = 1 -> 2
                                      [] Len(input) % 3 = 2 -> 1)
        /\ Len(encoded) = 4 * CeilDiv3(Len(input))
        /\ (input = <<>> => encoded = <<>>)

C7_Witness ==
    /\ pc = "encoded"
    /\ Len(input) = 2
    /\ Len(encoded) = 4
    /\ TrailingPads(encoded) = 1

----------------------------------------------------------------------------
(* Request configurations *)

GoodUri == "http://host/path"

Uris == {"", "http//host path", GoodUri}

\* What a resolver hands back: a Credentials value (username, password). A
\* resolver that has nothing to offer returns the default-constructed value.
NoCredentials == [username |-> "", password |-> ""]

Credentials == {[username |-> "user", password |-> "secret"], NoCredentials}

\* What a raising resolver throws
ResolverExceptions == {"std::runtime_error", "std::out_of_range"}

\* configuration.authentication_handler.for_http: an empty std::function, one
\* that returns credentials, or one that throws
NoHandler ==
    [present |-> FALSE, throws |-> FALSE, exception |-> "none",
     credentials |-> NoCredentials]

AuthenticationHandlers ==
    {NoHandler}
    \cup {[present |-> TRUE, throws |-> FALSE, exception |-> "none", credentials |-> c] :
            c \in Credentials}
    \cup {[present |-> TRUE, throws |-> TRUE, exception |-> e, credentials |-> NoCredentials] :
            e \in ResolverExceptions}

Configurations ==
    [uri : Uris,
     ssl : [verify_peer : BOOLEAN, verify_host : BOOLEAN],
     authentication_handler : AuthenticationHandlers]

\* Payloads handed to post: empty, "ab", and "ab\0c" with an embedded NUL
Payloads == {<<>>, <<97, 98>>, <<97, 98, 0, 99>>}

ContentTypes == {"application/json"}

\* Sizes declared to put
Sizes == {0, 2}

----------------------------------------------------------------------------
(* Building a handle. A frame is the local state of one head/get/post/put *)
(* call: the handle under construction, the exception in flight ("none"   *)
(* when there is none) and the URLs the resolver was invoked with.        *)

NoBody == [kind |-> "none", data |-> <<>>, content_type |-> "", size |-> 0]

\* ::curl::easy::Handle handle;
new_handle ==
    [method |-> "none", url |-> "", body |-> NoBody,
     ssl_verify_host |-> "unset", ssl_verify_peer |-> "unset",
     credentials |-> [set |-> FALSE, username |-> "", password |-> ""]]

new_frame == [handle |-> new_handle, thrown |-> "none", resolver_calls |-> <<>>]

\* One invocation of the resolver: its argument and what came of it
returned(uri, credentials) ==
    [uri |-> uri, raised |-> "none", credentials |-> credentials]

raised(uri, exception) ==
    [uri |-> uri, raised |-> exception, credentials |-> NoCredentials]

\* Handle::url accepts well-formed URLs only
ValidUrl(uri) == uri = GoodUri

\* handle.method(m).url(configuration.uri.c_str()).header(configuration.header)
\* (the headers take no part in what follows and are left out)
method_url(frame, m, configuration) ==
    IF ValidUrl(configuration.uri)
    THEN [frame EXCEPT !.handle.method = m, !.handle.url = configuration.uri]
    ELSE [frame EXCEPT !.handle.method = m, !.thrown = "InvalidRequest"]

\* std::string::c_str() read as a C string: the bytes before the first NUL
RECURSIVE c_str(_)
c_str(payload) ==
    IF payload = <<>> \/ Head(payload) = 0 THEN <<>>
    ELSE <<Head(payload)>> \o c_str(Tail(payload))

\* .post_data(payload.c_str(), ct)
post_data(frame, payload, ct) ==
    IF frame.thrown # "none" THEN frame
    ELSE [frame EXCEPT !.handle.body =
            [kind |-> "buffer", data |-> c_str(payload), content_type |-> ct,
             size |-> Len(c_str(payload))]]

\* .on_read_data([&payload, size](...) {...}, size)
on_read_data(frame, size) ==
    IF frame.thrown # "none" THEN frame
    ELSE [frame EXCEPT !.handle.body =
            [kind |-> "stream", data |-> <<>>, content_type |-> "", size |-> size]]

\* Variant: host verification chosen by verify_peer
ssl_verify_host_coupled(configuration) ==
    IF configuration.ssl.verify_peer THEN "enable_ssl_host_verification" ELSE "disable"

\* configuration.ssl.verify_host ? enable_ssl_host_verification : disable
ssl_verify_host_value(configuration) ==
    IF configuration.ssl.verify_host THEN "enable_ssl_host_verification" ELSE "disable"

\* configuration.ssl.verify_peer ? enable : disable
ssl_verify_peer_value(configuration) ==
    IF configuration.ssl.verify_peer THEN "enable" ELSE "disable"

\* the two handle.set_option calls
set_ssl_options(frame, configuration) ==
    IF frame.thrown # "none" THEN frame
    ELSE [frame EXCEPT !.handle.ssl_verify_host = ssl_verify_host_value(configuration),
                       !.handle.ssl_verify_peer = ssl_verify_peer_value(configuration)]

\* Variant: the resolver invoked without the test for its presence
authenticate_always(frame, configuration) ==
    LET handler == configuration.authentication_handler
    IN IF frame.thrown # "none" THEN frame
       ELSE IF handler.present /\ handler.throws
            THEN [frame EXCEPT !.thrown = handler.exception,
                               !.resolver_calls =
                                   Append(@, raised(configuration.uri, handler.exception))]
            ELSE [frame EXCEPT !.resolver_calls =
                                   Append(@, returned(configuration.uri, handler.credentials)),
                               !.handle.credentials =
                                   [set |-> TRUE,
                                    username |-> handler.credentials.username,
                                    password |-> handler.credentials.password]]

\* Variant: the resolver's exception caught and dropped
authenticate_catching(frame, configuration) ==
    LET handler == configuration.authentication_handler
    IN IF frame.thrown # "none" \/ ~handler.present THEN frame
       ELSE IF handler.throws
            THEN [frame EXCEPT !.resolver_calls =
                                   Append(@, raised(configuration.uri, handler.exception))]
            ELSE [frame EXCEPT !.resolver_calls =
                                   Append(@, returned(configuration.uri, handler.credentials)),
                               !.handle.credentials =
                                   [set |-> TRUE,
                                    username |-> handler.credentials.username,
                                    password |-> handler.credentials.password]]

\* if (configuration.authentication_handler.for_http) { credentials = ...;
\* handle.http_credentials(credentials.username, credentials.password); }
authenticate(frame, configuration) ==
    LET handler == configuration.authentication_handler
    IN IF frame.thrown # "none" \/ ~handler.present THEN frame
       ELSE IF handler.throws
            THEN [frame EXCEPT !.thrown = handler.exception,
                               !.resolver_calls =
                                   Append(@, raised(configuration.uri, handler.exception))]
            ELSE [frame EXCEPT !.resolver_calls =
                                   Append(@, returned(configuration.uri, handler.credentials)),
                               !.handle.credentials =
                                   [set |-> TRUE,
                                    username |-> handler.credentials.username,
                                    password |-> handler.credentials.password]]

\* The part head, get, post and put share: TLS options, then credentials
configure(frame, configuration) ==
    authenticate(set_ssl_options(frame, configuration), configuration)

\* The handle each of the four functions builds
head_handle(configuration) ==
    configure(method_url(new_frame, "head", configuration), configuration)

\* Variant: get with a post body
get_handle_with_body(configuration) ==
    configure(post_data(method_url(new_frame, "get", configuration), <<>>, ""),
              configuration)

get_handle(configuration) ==
    configure(method_url(new_frame, "get", configuration), configuration)

post_handle(configuration, payload, ct) ==
    configure(post_data(method_url(new_frame, "post", configuration), payload, ct),
              configuration)

put_handle(configuration, size) ==
    configure(on_read_data(method_url(new_frame, "put", configuration), size),
              configuration)

\* A call that registers a handle needs room in the model
Room(frame) == IF frame.thrown = "none" THEN Len(multi) < MaxHandles ELSE TRUE

\* What the caller of head/get/post/put observes: the exception or the
\* request, with the arguments the call was made with. built_from keeps the
\* arguments of a call that returned a request.
outcome(frame, configuration, payload, ct, request) ==
    [called |-> TRUE, thrown |-> frame.thrown, uri |-> configuration.uri,
     handler_present |-> configuration.authentication_handler.present,
     active_before |-> multi,
     request |-> request,
     built_from |-> IF request = <<>> THEN <<>>
                    ELSE <<[configuration |-> configuration, payload |-> payload,
                            content_type |-> ct]>>,
     resolver_calls |-> frame.resolver_calls]

\* new Request{multi, handle}: the handle joins the multi handle's set
register(handle) == Append(multi, handle)

\* Variant: the request built although an exception was thrown
return_request_swallowing(frame, configuration, payload, ct) ==
    /\ Room([frame EXCEPT !.thrown = "none"])
    /\ multi' = register(frame.handle)
    /\ result' = outcome(frame, configuration, payload, ct, <<frame.handle>>)

\* return std::shared_ptr<Request>{new Request{multi, handle}}: reached only
\* when nothing was thrown on the way
return_request(frame, configuration, payload, ct) ==
    /\ Room(frame)
    /\ multi' = IF frame.thrown = "none" THEN register(frame.handle) ELSE multi
    /\ result' = outcome(frame, configuration, payload, ct,
                         IF frame.thrown = "none" THEN <<frame.handle>> ELSE <<>>)

stream_vars == <<reader, stream, unread, pulled, last_read>>

\* Client::head
head(configuration) ==
    /\ return_request(head_handle(configuration), configuration, <<>>, "")
    /\ UNCHANGED stream_vars
    /\ UNCHANGED codec_vars

\* Client::get
get(configuration) ==
    /\ return_request(get_handle(configuration), configuration, <<>>, "")
    /\ UNCHANGED stream_vars
    /\ UNCHANGED codec_vars

\* Client::post
post(configuration, payload, ct) ==
    /\ return_request(post_handle(configuration, payload, ct), configuration, payload, ct)
    /\ UNCHANGED stream_vars
    /\ UNCHANGED codec_vars

\* Client::put: the handle keeps the closure over the payload stream and size
put(configuration, size) ==
    LET frame == put_handle(configuration, size)
    IN /\ return_request(frame, configuration, <<>>, "")
       /\ reader' = IF frame.thrown = "none"
                    THEN [installed |-> TRUE, size |-> size]
                    ELSE reader
       /\ pulled' = IF frame.thrown = "none" THEN 0 ELSE pulled
       /\ last_read' = IF frame.thrown = "none" THEN NoRead ELSE last_read
       /\ UNCHANGED <<stream, unread>>
       /\ UNCHANGED codec_vars

----------------------------------------------------------------------------
(* The read callback of a put handle *)

\* payload.readsome(dest, size): the bytes buffered in the stream, at most size
readsome(available, size) == Min(size, available)

\* The engine asks the closure for body bytes, offering a buffer of
\* in_size * nmemb bytes; it asks while it still misses part of the body.
\* The closure ignores in_size and nmemb.
ReadCallback(in_size_nmemb) ==
    /\ reader.installed
    /\ pulled < reader.size
    /\ LET n == readsome(stream, reader.size)
       IN /\ stream' = stream - n
          /\ pulled' = pulled + n
          /\ last_read' = [called |-> TRUE, capacity |-> in_size_nmemb,
                           written |-> n, returned |-> n,
                           remaining |-> reader.size - pulled]
    /\ UNCHANGED <<multi, result, reader, unread>>
    /\ UNCHANGED codec_vars

\* One more byte of the payload becomes readable without blocking
StreamFill ==
    /\ unread > 0
    /\ unread' = unread - 1
    /\ stream' = stream + 1
    /\ UNCHANGED <<multi, result, reader, pulled, last_read>>
    /\ UNCHANGED codec_vars

----------------------------------------------------------------------------
(* Specifications of the client *)

Init ==
    /\ input = <<>>
    /\ encoded = <<>>
    /\ decoded = <<>>
    /\ pc = "start"
    /\ ClientInit

Next ==
    \/ \E configuration \in Configurations : head(configuration)
    \/ \E configuration \in Configurations : get(configuration)
    \/ \E configuration \in Configurations, payload \in Payloads, ct \in ContentTypes :
            post(configuration, payload, ct)
    \/ \E configuration \in Configurations, size \in Sizes :
            put(configuration, size)

Spec == Init /\ [][Next]_vars

NextStream ==
    \/ \E configuration \in Configurations, size \in Sizes :
            put(configuration, size)
    \/ \E in_size_nmemb \in 1..MaxCap : ReadCallback(in_size_nmemb)
    \/ StreamFill

SpecStream == Init /\ [][NextStream]_vars

----------------------------------------------------------------------------
(* Claims about head/get/post/put *)

Returned == result.called /\ result.thrown = "none" /\ result.request # <<>>

ResolverRaised ==
    /\ result.called
    /\ Len(result.resolver_calls) > 0
    /\ result.resolver_calls[1].raised # "none"

InvokedOnceIffPresent ==
    IF result.handler_present
    THEN Len(result.resolver_calls) = 1 /\ result.resolver_calls[1].uri = result.uri
    ELSE result.resolver_calls = <<>>

MethodBodyCombinations ==
    {<<"head", "none">>, <<"get", "none">>, <<"post", "buffer">>, <<"put", "stream">>}

\* C5: every registered handle has one of the combinations HEAD:none,
\* GET:none, POST:in-memory buffer, PUT:stream.
C5_MethodBody ==
    \A k \in 1..Len(multi) :
        <<multi[k].method, multi[k].body.kind>> \in MethodBodyCombinations

C5_Witness ==
    /\ Len(multi) = 1
    /\ multi[1].method = "get"
    /\ multi[1].body.kind = "none"
    /\ Returned

\* C8: the handle's peer verification is enabled exactly when verify_peer is
\* set and its host verification exactly when verify_host is set, whatever
\* the other flag, the method and the credentials.
C8_TlsFlags ==
    Returned =>
        LET handle == result.request[1]
            ssl == result.built_from[1].configuration.ssl
        IN /\ handle.ssl_verify_peer = (IF ssl.verify_peer THEN "enable" ELSE "disable")
           /\ handle.ssl_verify_host =
                 (IF ssl.verify_host THEN "enable_ssl_host_verification" ELSE "disable")

C8_Witness ==
    /\ Returned
    /\ ~result.built_from[1].configuration.ssl.verify_peer
    /\ result.built_from[1].configuration.ssl.verify_host
    /\ result.request[1].ssl_verify_peer = "disable"
    /\ result.request[1].ssl_verify_host = "enable_ssl_host_verification"
    /\ result.request[1].credentials.set

\* C10: the body post attaches to the handle equals the payload byte for
\* byte, has the payload's length, and carries the given content type.
C10_PostBody ==
    (Returned /\ result.request[1].method = "post") =>
        /\ result.request[1].body.data = result.built_from[1].payload
        /\ result.request[1].body.size = Len(result.built_from[1].payload)
        /\ result.request[1].body.content_type = result.built_from[1].content_type

----------------------------------------------------------------------------
(* Claims about the read callback of put *)

\* C1: the bytes pulled from the stream never exceed the declared size, and
\* each invocation reads at most what remains of it.
C1_PulledWithinSize ==
    reader.installed =>
        /\ pulled <= reader.size
        /\ last_read.called => last_read.written <= last_read.remaining

\* C9: an invocation offered in_size * nmemb bytes of buffer writes at most
\* that many bytes and returns a count no larger.
C9_WithinCapacity ==
    last_read.called =>
        /\ last_read.written <= last_read.capacity
        /\ last_read.returned <= last_read.capacity

====
